---- MODULE Spec2Model ----
(***************************************************************************)
(* Model of stage1/prepare-app/prepare-app.c: the preparation of a stage2  *)
(* root (skeleton directories, etc/hosts, device / directory / sys / file  *)
(* bind mounts, symlinks).  One action per system call site of main() and  *)
(* of the helpers it calls; the host and the initial content of the root   *)
(* are drawn in Init, every checked call may also fail for a reason the    *)
(* model does not decide (EIO, EPERM, ...).                                 *)
(***************************************************************************)
EXTENDS Integers, Sequences, FiniteSets, TLC

VARIABLES
    host,        \* what the calls observe outside the root (read only)
    fs,          \* the tree under the root: path -> node
    pc,          \* position of the process
    i,           \* the loop variable i of main / mount_sys (1-based here)
    exit_err,    \* static int exit_err
    exit_status, \* the status the process ended with (low 8 bits)
    ops,         \* every call issued so far, in order, with its result
    fds,         \* descriptors currently open
    umask,       \* the file mode creation mask of the process
    buf,         \* char buf[] of get_machine_name
    name,        \* char name[] of ensure_etc_hosts_exists
    to,          \* char to[] of main / mount_sys
    dirp,        \* entries readdir has not returned yet
    uid,         \* k and uid_base, uid_shift, uid_range after fscanf
    run,         \* number of the current invocation on this root
    snap,        \* the tree as the previous invocation left it
    injected     \* a call of this invocation failed for an outside reason

vars == <<host, fs, pc, i, exit_err, exit_status, ops, fds, umask, buf, name,
          to, dirp, uid, run, snap, injected>>

----------------------------------------------------------------------------
(* Bounds of the model *)

MaxEntries == 2

ManyCtl == 75

MaxRuns == 2

----------------------------------------------------------------------------
(* Program constants and tables *)

\* a uid_t is 32 bits wide, written here as its two 16-bit halves
U32(hi, lo) == [num |-> TRUE, hi |-> hi, lo |-> lo]

\* a field of the record that is no number
NotANumber == [num |-> FALSE, hi |-> 0, lo |-> 0]

HalfMax == 65535

\* ((uid_t) -1)
UNMAPPED == U32(HalfMax, HalfMax)

PathMax == 4096

MACHINE_ID_LEN == 28

MACHINE_NAME_LEN == 36

HostsBufLen == 128

Mode0755 == 493

Mode01777 == 1023

Mode0644 == 420

StatusBits == 256

Root == "<root>"

Nul == "\\0"

Tab == "\t"

Newline == "\n"

unlink_paths == <<"dev/shm", "dev/ptmx">>

\* dev/net is listed before dev
dirsChildFirst == <<
    [name |-> "dev/net",             mode |-> Mode0755],
    [name |-> "dev",                 mode |-> Mode0755],
    [name |-> "dev/shm",             mode |-> Mode0755],
    [name |-> "etc",                 mode |-> Mode0755],
    [name |-> "proc",                mode |-> Mode0755],
    [name |-> "sys",                 mode |-> Mode0755],
    [name |-> "tmp",                 mode |-> Mode01777],
    [name |-> "dev/pts",             mode |-> Mode0755],
    [name |-> "run",                 mode |-> Mode0755],
    [name |-> "run/systemd",         mode |-> Mode0755],
    [name |-> "run/systemd/journal", mode |-> Mode0755] >>

dirs == <<
    [name |-> "dev",                 mode |-> Mode0755],
    [name |-> "dev/net",             mode |-> Mode0755],
    [name |-> "dev/shm",             mode |-> Mode0755],
    [name |-> "etc",                 mode |-> Mode0755],
    [name |-> "proc",                mode |-> Mode0755],
    [name |-> "sys",                 mode |-> Mode0755],
    [name |-> "tmp",                 mode |-> Mode01777],
    [name |-> "dev/pts",             mode |-> Mode0755],
    [name |-> "run",                 mode |-> Mode0755],
    [name |-> "run/systemd",         mode |-> Mode0755],
    [name |-> "run/systemd/journal", mode |-> Mode0755] >>

devnodes == <<"/dev/null", "/dev/zero", "/dev/full", "/dev/random",
              "/dev/urandom", "/dev/tty", "/dev/net/tun", "/dev/console">>

MS_BIND == {"MS_BIND"}

MS_BIND_REC == {"MS_BIND", "MS_REC"}

dirs_mount_table == <<
    [source |-> "/proc",                target |-> "/proc",                flags |-> MS_BIND_REC],
    [source |-> "/dev/shm",             target |-> "/dev/shm",             flags |-> MS_BIND],
    [source |-> "/dev/pts",             target |-> "/dev/pts",             flags |-> MS_BIND],
    [source |-> "/run/systemd/journal", target |-> "/run/systemd/journal", flags |-> MS_BIND] >>

files_mount_table == <<
    [source |-> "/etc/rkt-resolv.conf", target |-> "/etc/resolv.conf", flags |-> MS_BIND] >>

mnt_rec == [source |-> "/sys", target |-> "sys", flags |-> MS_BIND_REC]

sys_bind_table == <<
    [source |-> "/sys",           target |-> "sys",           flags |-> MS_BIND],
    [source |-> "/sys/fs/cgroup", target |-> "sys/fs/cgroup", flags |-> MS_BIND] >>

symlinks == <<
    [link |-> "/dev/ptmx", target |-> "/dev/pts/ptmx"],
    [link |-> "/dev/log",  target |-> "/run/systemd/journal/dev-log"] >>

----------------------------------------------------------------------------
(* The tree under the root *)

DirNames == {dirs[n].name : n \in 1..Len(dirs)}

DevKeys == {"dev/null", "dev/zero", "dev/full", "dev/random", "dev/urandom",
            "dev/tty", "dev/net/tun", "dev/console"}

FsPaths == DirNames \cup DevKeys
              \cup {"etc/hosts", "etc/resolv.conf", "dev/ptmx", "dev/log"}

Parent(p) ==
    CASE p \in {"dev/net", "dev/shm", "dev/pts", "dev/ptmx", "dev/log"}
             \cup (DevKeys \ {"dev/net/tun"})        -> "dev"
      [] p = "dev/net/tun"                           -> "dev/net"
      [] p \in {"etc/hosts", "etc/resolv.conf"}      -> "etc"
      [] p = "run/systemd"                           -> "run"
      [] p = "run/systemd/journal"                   -> "run/systemd"
      [] OTHER                                       -> ""

NoNode == [kind |-> "none", mode |-> 0, data |-> <<>>]

DirNode(m) == [kind |-> "dir", mode |-> m, data |-> <<>>]

FileNode(m, d) == [kind |-> "file", mode |-> m, data |-> d]

LinkNode(t) == [kind |-> "symlink", mode |-> 0, data |-> <<t>>]

\* the root itself is a directory; every other parent is looked up
ParentIsDir(tree, p) == Parent(p) = "" \/ tree[Parent(p)].kind = "dir"

\* the node a path composed by the program names: the kernel ignores
\* repeated slashes, and a path given with the root descriptor is relative
Resolve(path) ==
    CHOOSE k \in FsPaths :
        path \in {k, Root \o "/" \o k, Root \o "//" \o k}

IsFsPath(path) ==
    \E k \in FsPaths : path \in {k, Root \o "/" \o k, Root \o "//" \o k}

----------------------------------------------------------------------------
(* Character strings are sequences of one-character strings *)

HexA ==
    << "0", "1", "2", "3", "4", "5", "6", "7", "8", "9", "a", "b", "c", "d", "e", "f",
       "0", "1", "2", "3", "4", "5", "6", "7", "8", "9", "a", "b", "c", "d", "e", "f" >>

HexB ==
    << "0", "1", "2", "3", "4", "5", "6", "7", "8", "9", "a", "b", "c", "d", "e", "f",
       "0", "1", "2", "3", "4", "5", "6", "7", "8", "9", "a", "b", "0", "0", "0", "0" >>

HexC ==
    << "f", "e", "d", "c", "b", "a", "9", "8", "7", "6", "5", "4", "3", "2", "1", "0",
       "f", "e", "d", "c", "b", "a", "9", "8", "7", "6", "5", "4", "3", "2", "1", "0" >>

HexShort ==
    << "0", "1", "2", "3", "4", "5", "6", "7", "8", "9" >>

StrRkt ==
    << "r", "k", "t", "-" >>

StrLoopback ==
    << "1", "2", "7", ".", "0", ".", "0", ".", "1" >>

StrLocalhost ==
    << "l", "o", "c", "a", "l", "h", "o", "s", "t" >>

StrLocaldomain ==
    << "l", "o", "c", "a", "l", "h", "o", "s", "t", ".", "l", "o", "c", "a", "l", "d",
       "o", "m", "a", "i", "n" >>

StrCustomHosts ==
    << "1", "0", ".", "0", ".", "0", ".", "1", "\t", "b", "o", "x", "\n" >>

----------------------------------------------------------------------------
(* Pure helpers *)

RECURSIVE Concat(_)
Concat(ss) == IF ss = <<>> THEN <<>> ELSE Head(ss) \o Concat(Tail(ss))

Min(a, b) == IF a < b THEN a ELSE b

\* mode & ~mask on the twelve permission bits
RECURSIVE ClearBits(_, _, _)
ClearBits(mode, mask, bit) ==
    IF bit > 2048 THEN 0
    ELSE (IF (mode \div bit) % 2 = 1 /\ (mask \div bit) % 2 = 0 THEN bit ELSE 0)
            + ClearBits(mode, mask, 2 * bit)

ApplyUmask(mode, mask) == ClearBits(mode, mask, 1)

\* read(fd, buf, MACHINE_ID_LEN) into char buf[MACHINE_ID_LEN + 1]: the bytes
\* the file holds, at most MACHINE_ID_LEN of them; the rest of buf keeps
\* whatever the stack held
ReadMachineId(data, stack) ==
    [n \in 1..(MACHINE_ID_LEN + 1) |->
        IF n <= Min(Len(data), MACHINE_ID_LEN) THEN data[n] ELSE stack]

\* "%.<prec>s" of buf + off: up to prec characters, stopping at a NUL
RECURSIVE Precision(_, _, _)
Precision(b, off, prec) ==
    IF prec = 0 \/ off + 1 > Len(b) \/ b[off + 1] = Nul THEN <<>>
    ELSE <<b[off + 1]>> \o Precision(b, off + 1, prec - 1)

\* "rkt-%.8s-%.4s-%.4s-%.4s-%.8s", buf, buf+8, buf+12, buf+16, buf+20
MachineNameFormat(b) ==
    Concat(<< StrRkt, Precision(b, 0, 8), <<"-">>, Precision(b, 8, 4), <<"-">>,
              Precision(b, 12, 4), <<"-">>, Precision(b, 16, 4), <<"-">>,
              Precision(b, 20, 8) >>)

\* "%s\t%s\t%s\t%s\n", "127.0.0.1", name, "localhost", "localhost.localdomain"
HostsLineFormat(nm) ==
    Concat(<< StrLoopback, <<Tab>>, nm, <<Tab>>, StrLocalhost, <<Tab>>,
              StrLocaldomain, <<Newline>> >>)

\* write(fd, line, len) at offset 0 of a file opened without O_TRUNC
WriteAtStart(old, line) ==
    line \o (IF Len(old) > Len(line) THEN SubSeq(old, Len(line) + 1, Len(old)) ELSE <<>>)

\* k = fscanf(f, "%u %u %u", ...): the number of leading numeric fields, at
\* most three
RECURSIVE ScanCount(_, _)
ScanCount(fields, max) ==
    IF max = 0 \/ fields = <<>> \/ ~Head(fields).num THEN 0
    ELSE 1 + ScanCount(Tail(fields), max - 1)

\* every composed path is taken to fit
JoinLenNone(rootLen, target) == 0

\* snprintf(to, sizeof(to), "%s/%s", root, target): its return value
JoinLen(rootLen, target) == rootLen + 1 + Len(target)

JoinPath(target) == Root \o "/" \o target

\* snprintf(to, sizeof(to), "%s%s", root, from)
CatLen(rootLen, from) == rootLen + Len(from)

CatPath(from) == Root \o from

CgroupPath(dname) == "sys/fs/cgroup/" \o dname

----------------------------------------------------------------------------
(* The host and the initial root the program is started on *)

AllDevs == {devnodes[n] : n \in 1..Len(devnodes)}

HostDevChoices == {AllDevs, AllDevs \ {"/dev/net/tun"}, {"/dev/null", "/dev/console"}, {}}

Dirent(n, t) == [name |-> n, type |-> t]

DirentUniverse ==
    { Dirent(".", "DT_DIR"), Dirent("..", "DT_DIR"),
      Dirent("cpu,cpuacct", "DT_DIR"), Dirent("memory", "DT_DIR"),
      Dirent("tasks", "DT_REG") }

\* what readdir can return for a directory: its entries, each once, in any order
Listings ==
    UNION { { s \in [1..n -> DirentUniverse] :
                \A a, b \in 1..n : s[a] = s[b] => a = b } : n \in 0..MaxEntries }

SampleListings ==
    { <<>>,
      << Dirent(".", "DT_DIR"), Dirent("..", "DT_DIR"), Dirent("memory", "DT_DIR"),
         Dirent("tasks", "DT_REG"), Dirent("cpu,cpuacct", "DT_DIR") >> }

ManyListing == [n \in 1..ManyCtl |-> Dirent("c" \o ToString(n), "DT_DIR")]

UidMap(p, f) == [present |-> p, fields |-> f]

Zero == U32(0, 0)

IdentityMap == UidMap(TRUE, <<Zero, Zero, UNMAPPED>>)

NestedMaps ==
    { UidMap(TRUE, <<U32(1, 34464), Zero, U32(1, 0)>>),
      UidMap(TRUE, <<Zero, U32(0, 1000), UNMAPPED>>),
      UidMap(TRUE, <<Zero, Zero, U32(1, 0)>>),
      UidMap(TRUE, <<Zero, Zero, U32(0, HalfMax)>>) }

BadMaps == { UidMap(TRUE, <<Zero, Zero>>), UidMap(TRUE, <<>>),
             UidMap(TRUE, <<Zero, NotANumber, UNMAPPED>>) }

UidMaps == {IdentityMap, UidMap(FALSE, <<>>)} \cup NestedMaps \cup BadMaps

MachineId(p, d) == [present |-> p, data |-> d]

GoodIds == { MachineId(TRUE, HexA \o <<Newline>>), MachineId(TRUE, HexB \o <<Newline>>),
             MachineId(TRUE, HexC \o <<Newline>>) }

MachineIds == GoodIds \cup { MachineId(TRUE, HexShort), MachineId(TRUE, <<>>),
                             MachineId(FALSE, <<>>) }

StackBytes == {Nul, "Z"}

RootLens == {20, 4072, 4075, 4085, 4090}

BaseHost ==
    [ argc     |-> 2,
      rootLen  |-> 20,
      umask    |-> 18,
      cwd      |-> "/",
      devs     |-> AllDevs,
      unified  |-> FALSE,
      uidmap   |-> IdentityMap,
      listing  |-> <<>>,
      mid      |-> MachineId(TRUE, HexA \o <<Newline>>),
      stack    |-> Nul,
      resolv   |-> TRUE ]

EmptyRoot == [p \in FsPaths |-> NoNode]

WithNodes(tree, nodes) ==
    [p \in FsPaths |-> IF p \in DOMAIN nodes THEN nodes[p] ELSE tree[p]]

InitialRoots ==
    { EmptyRoot,
      \* an image that ships its own hosts file
      WithNodes(EmptyRoot, [p \in {"etc", "etc/hosts"} |->
          IF p = "etc" THEN DirNode(Mode0755) ELSE FileNode(Mode0644, StrCustomHosts)]),
      \* an image with the symlinks main() removes
      WithNodes(EmptyRoot, [p \in {"dev", "dev/shm", "dev/ptmx"} |->
          IF p = "dev" THEN DirNode(Mode0755)
          ELSE IF p = "dev/shm" THEN LinkNode("/run/shm") ELSE LinkNode("pts/ptmx")]),
      \* an image that ships files at the paths of device nodes
      WithNodes(EmptyRoot, [p \in {"dev", "dev/null", "dev/console"} |->
          IF p = "dev" THEN DirNode(Mode0755) ELSE FileNode(Mode0644, <<>>)]),
      \* directories and files where the program expects something else
      WithNodes(EmptyRoot, [p \in {"dev", "dev/ptmx", "dev/log", "dev/null"} |->
          IF p = "dev/log" THEN FileNode(Mode0644, <<>>) ELSE DirNode(Mode0755)]),
      WithNodes(EmptyRoot, [p \in {"tmp", "etc", "etc/resolv.conf"} |->
          IF p = "etc/resolv.conf" THEN FileNode(Mode0644, <<>>) ELSE DirNode(Mode0755)]),
      WithNodes(EmptyRoot, [p \in {"dev"} |-> FileNode(Mode0644, <<>>)]) }

Config(h, r) == [host |-> h, root |-> r]

\* the cgroup hierarchy in every shape, on an empty root
SysConfigs ==
    { Config([BaseHost EXCEPT !.uidmap = u, !.listing = l], EmptyRoot) :
        u \in {IdentityMap, UidMap(FALSE, <<>>)}, l \in Listings }
    \cup
    { Config([BaseHost EXCEPT !.unified = c, !.uidmap = u, !.listing = l], EmptyRoot) :
        c \in BOOLEAN, u \in UidMaps, l \in SampleListings }

\* every initial root with every machine identity
RootConfigs ==
    { Config([BaseHost EXCEPT !.mid = m, !.unified = TRUE], r) :
        m \in MachineIds, r \in InitialRoots }
    \cup
    { Config([BaseHost EXCEPT !.mid = m, !.stack = s, !.unified = TRUE], EmptyRoot) :
        m \in MachineIds, s \in StackBytes }

\* which device nodes and resolver file the host has, the length of the root
\* path, the inherited umask, the working directory, the arguments
HostConfigs ==
    { Config([BaseHost EXCEPT !.devs = d, !.resolv = v, !.rootLen = n,
                              !.listing = l], r) :
        d \in HostDevChoices, v \in BOOLEAN, n \in RootLens,
        l \in SampleListings, r \in {EmptyRoot} }
    \cup
    { Config([BaseHost EXCEPT !.devs = d, !.unified = TRUE], r) :
        d \in HostDevChoices, r \in InitialRoots }
    \cup
    { Config([BaseHost EXCEPT !.umask = m, !.cwd = w, !.argc = a,
                              !.listing = l], EmptyRoot) :
        m \in {0, 18}, w \in {"/", "/opt/stage1"}, a \in {1, 2},
        l \in SampleListings }

\* a hierarchy with many controller directories
ManyConfigs ==
    { Config([BaseHost EXCEPT !.listing = ManyListing, !.devs = d], EmptyRoot) :
        d \in {AllDevs, AllDevs \ {"/dev/net/tun"}} }

Configs == SysConfigs \cup RootConfigs \cup HostConfigs \cup ManyConfigs

NoUid == [k |-> 0, base |-> Zero, shift |-> Zero, range |-> Zero]

Start(c) ==
    /\ host = c.host
    /\ fs = c.root
    /\ pc = "start"
    /\ i = 0
    /\ exit_err = 0
    /\ exit_status = 0
    /\ ops = <<>>
    /\ fds = {}
    /\ umask = c.host.umask
    /\ buf = <<>>
    /\ name = <<>>
    /\ to = ""
    /\ dirp = <<>>
    /\ uid = NoUid
    /\ run = 1
    /\ snap = c.root
    /\ injected = FALSE

Init == \E c \in Configs : Start(c)

----------------------------------------------------------------------------
(* The calls *)

Call(step, op, src, tgt, flags, err) ==
    [step |-> step, op |-> op, src |-> src, tgt |-> tgt, flags |-> flags,
     ok |-> (err = ""), err |-> err]

Issue(c) == ops' = Append(ops, c)

\* exit(exit_err) after n more evaluations of exit_if
Exit(n) ==
    /\ exit_err' = exit_err + n
    /\ exit_status' = (exit_err + n) % StatusBits
    /\ pc' = "exit"

\* n evaluations of exit_if whose condition was false
Pass(n, next) ==
    /\ exit_err' = exit_err + n
    /\ pc' = next
    /\ UNCHANGED exit_status

\* the errno of a call that fails for a reason outside the model
Outside == "EIO"

\* unlinkat(rootfd, path, 0)
UnlinkErr(tree, path) ==
    IF ~ParentIsDir(tree, path)
    THEN (IF tree[Parent(path)].kind = "none" THEN "ENOENT" ELSE "ENOTDIR")
    ELSE CASE tree[path].kind = "none" -> "ENOENT"
           [] tree[path].kind = "dir"  -> "EISDIR"
           [] OTHER                    -> ""

\* mkdirat(rootfd, path, mode)
MkdirErr(tree, path) ==
    IF ~ParentIsDir(tree, path)
    THEN (IF tree[Parent(path)].kind = "none" THEN "ENOENT" ELSE "ENOTDIR")
    ELSE IF tree[path].kind # "none" THEN "EEXIST" ELSE ""

\* open(path, O_WRONLY|O_CREAT, mode) and creat(path, mode)
CreatErr(tree, path) ==
    IF ~ParentIsDir(tree, path)
    THEN (IF tree[Parent(path)].kind = "none" THEN "ENOENT" ELSE "ENOTDIR")
    ELSE CASE tree[path].kind = "dir"     -> "EISDIR"
           [] tree[path].kind = "symlink" -> "ENOENT"
           [] OTHER                       -> ""

Created(tree, path, mode) ==
    IF tree[path].kind = "none"
    THEN [tree EXCEPT ![path] = FileNode(ApplyUmask(mode, umask), <<>>)]
    ELSE tree

\* symlink(target, path)
SymlinkErr(tree, path) ==
    IF ~ParentIsDir(tree, path)
    THEN (IF tree[Parent(path)].kind = "none" THEN "ENOENT" ELSE "ENOTDIR")
    ELSE IF tree[path].kind # "none" THEN "EEXIST" ELSE ""

\* faccessat(rootfd, path, F_OK) and access(path, F_OK) under the root
Exists(tree, path) == ParentIsDir(tree, path) /\ tree[path].kind \in {"dir", "file"}

\* whether a bind mount source exists on the host: absolute paths of the
\* tables do, a relative one is resolved against the working directory
SourceErr(src) ==
    IF src \in {"/proc", "/dev/shm", "/dev/pts", "/run/systemd/journal", "/sys",
                "/sys/fs/cgroup", "/etc/rkt-resolv.conf"} \cup AllDevs
    THEN ""
    ELSE IF host.cwd = "/" THEN "" ELSE "ENOENT"

\* mount(src, path, "bind", flags, NULL) on a path under the root: a
\* directory is bound on a directory and a file on a file; below sys the
\* target is what the bind mounts of /sys and /sys/fs/cgroup show there
TargetErr(tree, path, wantKind) ==
    IF IsFsPath(path)
    THEN (IF ~ParentIsDir(tree, Resolve(path)) \/ tree[Resolve(path)].kind \in {"none", "symlink"}
          THEN "ENOENT"
          ELSE IF tree[Resolve(path)].kind # wantKind THEN "ENOTDIR" ELSE "")
    ELSE ""

MountErr(tree, src, path, wantKind) ==
    IF SourceErr(src) # "" THEN SourceErr(src) ELSE TargetErr(tree, path, wantKind)

\* the state untouched by most calls
Process == <<host, run, snap>>

\* a close that leaves the descriptor open
ReleasedNever(open, fd) == open

\* close(fd), fclose(f), closedir(dir): the descriptor is gone whatever the
\* call returns
Released(open, fd) == open \ {fd}

----------------------------------------------------------------------------
(* main(): the order of its parts; After(part) is where the process goes on
   when `part` is finished *)

\* the order skeleton, devices, directories, files, sys, hosts, symlinks
AfterHostsLast(part) ==
    CASE part = "args"       -> "mount_root"
      [] part = "mount_root" -> "open_root"
      [] part = "open_root"  -> "unlink"
      [] part = "unlink"     -> "umask"
      [] part = "umask"      -> "mkdir"
      [] part = "mkdir"      -> "dev_access"
      [] part = "dev"        -> "dir_mount"
      [] part = "dir"        -> "file_access"
      [] part = "file"       -> "sys_statfs"
      [] part = "sys"        -> "hosts_access"
      [] part = "hosts"      -> "close_root"
      [] part = "close_root" -> "symlink"
      [] part = "symlink"    -> "return"

After(part) ==
    CASE part = "args"       -> "mount_root"
      [] part = "mount_root" -> "open_root"
      [] part = "open_root"  -> "unlink"
      [] part = "unlink"     -> "umask"
      [] part = "umask"      -> "mkdir"
      [] part = "mkdir"      -> "hosts_access"
      [] part = "hosts"      -> "close_root"
      [] part = "close_root" -> "dev_access"
      [] part = "dev"        -> "dir_mount"
      [] part = "dir"        -> "sys_statfs"
      [] part = "sys"        -> "file_access"
      [] part = "file"       -> "symlink"
      [] part = "symlink"    -> "return"

(* main(): arguments, the root's own bind mount, the root descriptor *)

CheckArgs ==
    /\ pc = "start"
    /\ IF host.argc < 2 THEN Exit(1) ELSE Pass(1, After("args"))
    /\ UNCHANGED <<Process, fs, i, ops, fds, umask, buf, name, to, dirp, uid, injected>>

MountRoot ==
    /\ pc = "mount_root"
    /\ \E fault \in BOOLEAN :
        LET err == IF fault THEN Outside ELSE "" IN
        /\ Issue(Call("mount_root", "mount", Root, Root, MS_BIND_REC, err))
        /\ injected' = (injected \/ fault)
        /\ IF err # "" THEN Exit(1) ELSE Pass(1, After("mount_root"))
    /\ UNCHANGED <<Process, fs, i, fds, umask, buf, name, to, dirp, uid>>

OpenRoot ==
    /\ pc = "open_root"
    /\ \E fault \in BOOLEAN :
        LET err == IF fault THEN Outside ELSE "" IN
        /\ Issue(Call("open_root", "open", "", Root, {}, err))
        /\ injected' = (injected \/ fault)
        /\ IF err # ""
           THEN Exit(1) /\ UNCHANGED <<fds, i>>
           ELSE Pass(1, After("open_root")) /\ fds' = fds \cup {"rootfd"} /\ i' = 1
    /\ UNCHANGED <<Process, fs, umask, buf, name, to, dirp, uid>>

(* the skeleton: unlink_paths, umask(0), dirs *)

UnlinkTolerated(err) == err \in {"", "ENOENT", "EISDIR"}

Unlink ==
    /\ pc = "unlink"
    /\ \E fault \in BOOLEAN :
        LET path == unlink_paths[i]
            err  == IF fault THEN Outside ELSE UnlinkErr(fs, path) IN
        /\ Issue(Call("unlink", "unlinkat", "", path, {}, err))
        /\ injected' = (injected \/ fault)
        /\ fs' = IF err = "" THEN [fs EXCEPT ![path] = NoNode] ELSE fs
        /\ IF ~UnlinkTolerated(err)
           THEN Exit(1) /\ UNCHANGED i
           ELSE IF i < Len(unlink_paths)
                THEN Pass(1, "unlink") /\ i' = i + 1
                ELSE Pass(1, After("unlink")) /\ i' = 1
    /\ UNCHANGED <<Process, fds, umask, buf, name, to, dirp, uid>>

Umask ==
    /\ pc = "umask"
    /\ umask' = 0
    /\ pc' = After("umask")
    /\ UNCHANGED <<Process, fs, i, exit_err, exit_status, ops, fds, buf, name, to,
                   dirp, uid, injected>>

\* an existing directory is an error
MkdirStrict(err) == err = ""

MkdirTolerated(err) == err \in {"", "EEXIST"}

Mkdir ==
    /\ pc = "mkdir"
    /\ \E fault \in BOOLEAN :
        LET d   == dirs[i]
            err == IF fault THEN Outside ELSE MkdirErr(fs, d.name) IN
        /\ Issue(Call("mkdir", "mkdirat", "", d.name, {}, err))
        /\ injected' = (injected \/ fault)
        /\ fs' = IF err = ""
                 THEN [fs EXCEPT ![d.name] = DirNode(ApplyUmask(d.mode, umask))]
                 ELSE fs
        /\ IF ~MkdirTolerated(err)
           THEN Exit(1) /\ UNCHANGED i
           ELSE IF i < Len(dirs)
                THEN Pass(1, "mkdir") /\ i' = i + 1
                ELSE Pass(1, After("mkdir")) /\ i' = 1
    /\ UNCHANGED <<Process, fds, umask, buf, name, to, dirp, uid>>

(* ensure_etc_hosts_exists() and get_machine_name() *)

\* the existing file is not looked for
HostsAccessAlways ==
    /\ pc = "hosts_access"
    /\ pc' = "mid_open"
    /\ UNCHANGED <<Process, fs, i, exit_err, exit_status, ops, fds, umask, buf, name,
                   to, dirp, uid, injected>>

HostsAccess ==
    /\ pc = "hosts_access"
    /\ pc' = IF Exists(fs, "etc/hosts") THEN "hosts_ret1" ELSE "mid_open"
    /\ UNCHANGED <<Process, fs, i, exit_err, exit_status, ops, fds, umask, buf, name,
                   to, dirp, uid, injected>>

MidOpen ==
    /\ pc = "mid_open"
    /\ \E fault \in BOOLEAN :
        LET err == IF fault THEN Outside
                   ELSE IF ~host.mid.present THEN "ENOENT" ELSE "" IN
        /\ Issue(Call("mid_open", "open", "", "/etc/machine-id", {}, err))
        /\ injected' = (injected \/ fault)
        /\ IF err # ""
           THEN pc' = "hosts_ret0" /\ UNCHANGED fds
           ELSE pc' = "mid_read" /\ fds' = fds \cup {"machine-id"}
    /\ UNCHANGED <<Process, fs, i, exit_err, exit_status, umask, buf, name, to,
                   dirp, uid>>

MidRead ==
    /\ pc = "mid_read"
    /\ \E fault \in BOOLEAN :
        LET err == IF fault THEN Outside ELSE "" IN
        /\ Issue(Call("mid_read", "read", "", "/etc/machine-id", {}, err))
        /\ injected' = (injected \/ fault)
        /\ buf' = IF err = "" THEN ReadMachineId(host.mid.data, host.stack)
                  ELSE ReadMachineId(<<>>, host.stack)
        /\ pc' = IF err # "" THEN "mid_fail_fd" ELSE "mid_close"
    /\ UNCHANGED <<Process, fs, i, exit_err, exit_status, fds, umask, name, to,
                   dirp, uid>>

\* _fail_fd: close(fd); return 0
MidFailFd ==
    /\ pc = "mid_fail_fd"
    /\ Issue(Call("mid_fail_fd", "close", "", "/etc/machine-id", {}, ""))
    /\ fds' = Released(fds, "machine-id")
    /\ pc' = "hosts_ret0"
    /\ UNCHANGED <<Process, fs, i, exit_err, exit_status, umask, buf, name, to,
                   dirp, uid, injected>>

\* close(fd), then both snprintf calls: the name into name[MACHINE_NAME_LEN + 1],
\* the line into hosts[128]
MidClose ==
    /\ pc = "mid_close"
    /\ \E fault \in BOOLEAN :
        LET err == IF fault THEN Outside ELSE ""
            nm  == MachineNameFormat(buf) IN
        /\ Issue(Call("mid_close", "close", "", "/etc/machine-id", {}, err))
        /\ injected' = (injected \/ fault)
        /\ fds' = Released(fds, "machine-id")
        /\ IF err # "" \/ Len(nm) >= MACHINE_NAME_LEN + 1
           THEN pc' = "hosts_ret0" /\ UNCHANGED name
           ELSE /\ name' = nm
                /\ pc' = IF Len(HostsLineFormat(nm)) >= HostsBufLen
                         THEN "hosts_ret0" ELSE "hosts_open"
    /\ UNCHANGED <<Process, fs, i, exit_err, exit_status, umask, buf, to, dirp, uid>>

HostsOpen ==
    /\ pc = "hosts_open"
    /\ \E fault \in BOOLEAN :
        LET err == IF fault THEN Outside ELSE CreatErr(fs, "etc/hosts") IN
        /\ Issue(Call("hosts_open", "openat", "", "etc/hosts", {}, err))
        /\ injected' = (injected \/ fault)
        /\ IF err # ""
           THEN pc' = "hosts_ret0" /\ UNCHANGED <<fds, fs>>
           ELSE /\ pc' = "hosts_write"
                /\ fds' = fds \cup {"etc/hosts"}
                /\ fs' = Created(fs, "etc/hosts", Mode0644)
    /\ UNCHANGED <<Process, i, exit_err, exit_status, umask, buf, name, to, dirp, uid>>

HostsWrite ==
    /\ pc = "hosts_write"
    /\ \E fault \in BOOLEAN :
        LET err  == IF fault THEN Outside ELSE ""
            line == HostsLineFormat(name) IN
        /\ Issue(Call("hosts_write", "write", "", "etc/hosts", {}, err))
        /\ injected' = (injected \/ fault)
        /\ fs' = IF err = ""
                 THEN [fs EXCEPT !["etc/hosts"].data = WriteAtStart(@, line)]
                 ELSE fs
        /\ pc' = IF err # "" THEN "hosts_fail_fd" ELSE "hosts_close"
    /\ UNCHANGED <<Process, i, exit_err, exit_status, fds, umask, buf, name, to,
                   dirp, uid>>

HostsFailFd ==
    /\ pc = "hosts_fail_fd"
    /\ Issue(Call("hosts_fail_fd", "close", "", "etc/hosts", {}, ""))
    /\ fds' = Released(fds, "etc/hosts")
    /\ pc' = "hosts_ret0"
    /\ UNCHANGED <<Process, fs, i, exit_err, exit_status, umask, buf, name, to,
                   dirp, uid, injected>>

HostsClose ==
    /\ pc = "hosts_close"
    /\ \E fault \in BOOLEAN :
        LET err == IF fault THEN Outside ELSE "" IN
        /\ Issue(Call("hosts_close", "close", "", "etc/hosts", {}, err))
        /\ injected' = (injected \/ fault)
        /\ fds' = Released(fds, "etc/hosts")
        /\ pc' = IF err # "" THEN "hosts_ret0" ELSE "hosts_ret1"
    /\ UNCHANGED <<Process, fs, i, exit_err, exit_status, umask, buf, name, to,
                   dirp, uid>>

\* exit_if(!ensure_etc_hosts_exists(root, rootfd), ...)
HostsCheck ==
    /\ pc \in {"hosts_ret0", "hosts_ret1"}
    /\ IF pc = "hosts_ret0" THEN Exit(1) ELSE Pass(1, After("hosts"))
    /\ UNCHANGED <<Process, fs, i, ops, fds, umask, buf, name, to, dirp, uid, injected>>

CloseRoot ==
    /\ pc = "close_root"
    /\ Issue(Call("close_root", "close", "", Root, {}, ""))
    /\ fds' = Released(fds, "rootfd")
    /\ pc' = After("close_root")
    /\ i' = 1
    /\ UNCHANGED <<Process, fs, exit_err, exit_status, umask, buf, name, to, dirp,
                   uid, injected>>

----------------------------------------------------------------------------
(* mount_at(root, mnt), continuing at `next` with i = nexti *)

MountAt(step, mnt, wantKind, next, nexti) ==
    IF JoinLen(host.rootLen, mnt.target) >= PathMax
    THEN Exit(1) /\ UNCHANGED <<ops, injected, i>>
    ELSE \E fault \in BOOLEAN :
        LET path == JoinPath(mnt.target)
            err  == IF fault THEN Outside
                    ELSE MountErr(fs, mnt.source, path, wantKind) IN
        /\ Issue(Call(step, "mount", mnt.source, path, mnt.flags, err))
        /\ injected' = (injected \/ fault)
        /\ IF err # "" THEN Exit(2) /\ UNCHANGED i ELSE Pass(2, next) /\ i' = nexti

(* main(): the device nodes *)

DevNext ==
    IF i < Len(devnodes)
    THEN pc' = "dev_access" /\ i' = i + 1
    ELSE pc' = After("dev") /\ i' = 1

\* the host is not asked
HostHasDevAlways(from) == TRUE

\* access(from, F_OK) == 0
HostHasDev(from) == from \in host.devs

DevAccess ==
    /\ pc = "dev_access"
    /\ LET from == devnodes[i] IN
        IF ~HostHasDev(from)
        THEN DevNext /\ UNCHANGED <<exit_err, exit_status, to>>
        ELSE IF CatLen(host.rootLen, from) >= PathMax
             THEN Exit(1) /\ UNCHANGED <<i, to>>
             ELSE Pass(1, "dev_open") /\ to' = CatPath(from) /\ UNCHANGED i
    /\ UNCHANGED <<Process, fs, ops, fds, umask, buf, name, dirp, uid, injected>>

\* a run is followed through one failure for an outside reason: every other
\* one is fatal, and of the failures of the unchecked open one is followed
OneFault == IF injected THEN {FALSE} ELSE BOOLEAN

\* a failed open ends the run
PlaceholderNextFatal(err) == IF err # "" THEN "exit" ELSE "dev_close"

\* if (fd != -1) close(fd); the mount follows in either case
PlaceholderNext(err) == IF err # "" THEN "dev_mount" ELSE "dev_close"

\* fd = open(to, O_WRONLY|O_CREAT|O_CLOEXEC|O_NOCTTY, 0644), not checked
DevOpen ==
    /\ pc = "dev_open"
    /\ \E fault \in OneFault :
        LET err == IF fault THEN Outside ELSE CreatErr(fs, Resolve(to)) IN
        /\ Issue(Call("dev_open", "open", "", to, {}, err))
        /\ injected' = (injected \/ fault)
        /\ pc' = PlaceholderNext(err)
        /\ IF err # ""
           THEN UNCHANGED <<fds, fs>>
           ELSE /\ fds' = fds \cup {"placeholder"}
                /\ fs' = Created(fs, Resolve(to), Mode0644)
    /\ UNCHANGED <<Process, i, exit_err, exit_status, umask, buf, name, to, dirp, uid>>

DevClose ==
    /\ pc = "dev_close"
    /\ Issue(Call("dev_close", "close", "", to, {}, ""))
    /\ fds' = Released(fds, "placeholder")
    /\ pc' = "dev_mount"
    /\ UNCHANGED <<Process, fs, i, exit_err, exit_status, umask, buf, name, to,
                   dirp, uid, injected>>

DevMount ==
    /\ pc = "dev_mount"
    /\ \E fault \in BOOLEAN :
        LET from == devnodes[i]
            err  == IF fault THEN Outside ELSE MountErr(fs, from, to, "file") IN
        /\ Issue(Call("dev_mount", "mount", from, to, MS_BIND, err))
        /\ injected' = (injected \/ fault)
        /\ exit_err' = exit_err + 1
        /\ IF err # ""
           THEN /\ pc' = "exit"
                /\ exit_status' = (exit_err + 1) % StatusBits
                /\ UNCHANGED i
           ELSE DevNext /\ UNCHANGED exit_status
    /\ UNCHANGED <<Process, fs, fds, umask, buf, name, to, dirp, uid>>

(* main(): the directories *)

DirMount ==
    /\ pc = "dir_mount"
    /\ IF i < Len(dirs_mount_table)
       THEN MountAt("dir_mount", dirs_mount_table[i], "dir", "dir_mount", i + 1)
       ELSE MountAt("dir_mount", dirs_mount_table[i], "dir", After("dir"), 1)
    /\ UNCHANGED <<Process, fs, fds, umask, buf, name, to, dirp, uid>>

(* mount_sys() *)

\* the unified hierarchy is not recognised
AfterStatfsLegacy(unified) == "sys_access"

\* fs.f_type == CGROUP2_SUPER_MAGIC
AfterStatfs(unified) == IF unified THEN "sys_rec" ELSE "sys_access"

SysStatfs ==
    /\ pc = "sys_statfs"
    /\ \E fault \in BOOLEAN :
        /\ injected' = (injected \/ fault)
        /\ IF fault THEN Exit(1)
           ELSE Pass(1, AfterStatfs(host.unified))
    /\ UNCHANGED <<Process, fs, i, ops, fds, umask, buf, name, to, dirp, uid>>

\* mount_at(root, &mnt_rec); return
SysRec ==
    /\ pc = "sys_rec"
    /\ MountAt("sys_rec", mnt_rec, "dir", After("sys"), 1)
    /\ UNCHANGED <<Process, fs, fds, umask, buf, name, to, dirp, uid>>

\* the record is opened whether or not the file is there
HasUidMapAlways(h) == TRUE

\* access("/proc/1/uid_map", F_OK) == 0
HasUidMap(h) == h.uidmap.present

SysAccess ==
    /\ pc = "sys_access"
    /\ pc' = IF HasUidMap(host) THEN "sys_fopen" ELSE "sys_bind"
    /\ i' = 1
    /\ UNCHANGED <<Process, fs, exit_err, exit_status, ops, fds, umask, buf, name,
                   to, dirp, uid, injected>>

SysFopen ==
    /\ pc = "sys_fopen"
    /\ \E fault \in BOOLEAN :
        LET err == IF fault THEN Outside ELSE "" IN
        /\ Issue(Call("sys_fopen", "fopen", "", "/proc/1/uid_map", {}, err))
        /\ injected' = (injected \/ fault)
        /\ IF err # ""
           THEN Exit(1) /\ UNCHANGED fds
           ELSE Pass(1, "sys_fscanf") /\ fds' = fds \cup {"uid_map"}
    /\ UNCHANGED <<Process, fs, i, umask, buf, name, to, dirp, uid>>

Field(fields, n) == IF n <= Len(fields) THEN fields[n] ELSE Zero

SysFscanf ==
    /\ pc = "sys_fscanf"
    /\ LET f == host.uidmap.fields IN
        uid' = [k |-> ScanCount(f, 3), base |-> Field(f, 1), shift |-> Field(f, 2),
                range |-> Field(f, 3)]
    /\ pc' = "sys_fclose"
    /\ UNCHANGED <<Process, fs, i, exit_err, exit_status, ops, fds, umask, buf, name,
                   to, dirp, injected>>

\* the range is not looked at
NestedNoRange(u) == u.base # Zero \/ u.shift # Zero

\* we are in a user namespace having a parent namespace set
Nested(u) == u.base # Zero \/ u.shift # Zero \/ u.range # UNMAPPED

\* any number of fields passes
InvalidFormatNever(k) == FALSE

\* k != 3
InvalidFormat(k) == k # 3

\* fclose(f), the check of k, and the choice of the strategy
SysFclose ==
    /\ pc = "sys_fclose"
    /\ \E fault \in BOOLEAN :
        LET err == IF fault THEN Outside ELSE "" IN
        /\ Issue(Call("sys_fclose", "fclose", "", "/proc/1/uid_map", {}, err))
        /\ injected' = (injected \/ fault)
        /\ fds' = Released(fds, "uid_map")
        /\ IF err # "" THEN Exit(1)
           ELSE IF InvalidFormat(uid.k) THEN Exit(2)
           ELSE Pass(2, IF Nested(uid) THEN "sys_rec" ELSE "sys_bind")
    /\ UNCHANGED <<Process, fs, i, umask, buf, name, to, dirp, uid>>

SysBind ==
    /\ pc = "sys_bind"
    /\ IF i < Len(sys_bind_table)
       THEN MountAt("sys_bind", sys_bind_table[i], "dir", "sys_bind", i + 1)
       ELSE MountAt("sys_bind", sys_bind_table[i], "dir", "sys_opendir", 1)
    /\ UNCHANGED <<Process, fs, fds, umask, buf, name, to, dirp, uid>>

\* snprintf(to, ..., "%s/%s", root, "sys/fs/cgroup") and opendir(to): the
\* directory shows what the host's /sys/fs/cgroup holds
SysOpendir ==
    /\ pc = "sys_opendir"
    /\ IF JoinLen(host.rootLen, "sys/fs/cgroup") >= PathMax
       THEN Exit(1) /\ UNCHANGED <<ops, fds, to, dirp, injected>>
       ELSE \E fault \in BOOLEAN :
            LET path == JoinPath("sys/fs/cgroup")
                err  == IF fault THEN Outside ELSE "" IN
            /\ Issue(Call("sys_opendir", "opendir", "", path, {}, err))
            /\ injected' = (injected \/ fault)
            /\ to' = path
            /\ IF err # ""
               THEN Exit(2) /\ UNCHANGED <<fds, dirp>>
               ELSE /\ Pass(2, "sys_readdir")
                    /\ fds' = fds \cup {"cgroup-dir"}
                    /\ dirp' = host.listing
    /\ UNCHANGED <<Process, fs, i, umask, buf, name, uid>>

\* the entry .. is not skipped
SkippedNoDotDot(d) == d.type # "DT_DIR" \/ d.name = "."

Skipped(d) == d.type # "DT_DIR" \/ d.name = "." \/ d.name = ".."

\* one readdir(dir): an entry, the end of the directory, or an error
SysReaddir ==
    /\ pc = "sys_readdir"
    /\ \E fault \in BOOLEAN :
        /\ injected' = (injected \/ fault)
        /\ IF fault
           THEN Exit(1) /\ UNCHANGED <<dirp, to>>
           ELSE IF dirp = <<>>
           THEN Pass(1, "sys_closedir") /\ UNCHANGED <<dirp, to>>
           ELSE LET d == Head(dirp) IN
                /\ dirp' = Tail(dirp)
                /\ IF Skipped(d)
                   THEN UNCHANGED <<pc, exit_err, exit_status, to>>
                   ELSE IF Len(CgroupPath(d.name)) >= PathMax
                        THEN Exit(1) /\ UNCHANGED to
                        ELSE Pass(1, "sys_ctl_mount") /\ to' = CgroupPath(d.name)
    /\ UNCHANGED <<Process, fs, i, ops, fds, umask, buf, name, uid>>

\* mount_point mnt = { to, to, "bind", NULL, MS_BIND }; mount_at(root, &mnt)
SysCtlMount ==
    /\ pc = "sys_ctl_mount"
    /\ MountAt("sys_ctl_mount", [source |-> to, target |-> to, flags |-> MS_BIND],
               "dir", "sys_readdir", i)
    /\ UNCHANGED <<Process, fs, fds, umask, buf, name, to, dirp, uid>>

SysClosedir ==
    /\ pc = "sys_closedir"
    /\ \E fault \in BOOLEAN :
        LET err == IF fault THEN Outside ELSE "" IN
        /\ Issue(Call("sys_closedir", "closedir", "", JoinPath("sys/fs/cgroup"), {}, err))
        /\ injected' = (injected \/ fault)
        /\ fds' = Released(fds, "cgroup-dir")
        /\ IF err # "" THEN Exit(1) /\ UNCHANGED i
           ELSE Pass(1, After("sys")) /\ i' = 1
    /\ UNCHANGED <<Process, fs, umask, buf, name, to, dirp, uid>>

(* main(): the files, the symlinks *)

FileNext ==
    IF i < Len(files_mount_table)
    THEN pc' = "file_access" /\ i' = i + 1
    ELSE pc' = After("file") /\ i' = 1

\* the path, access(mnt->source, F_OK) and access(to, F_OK)
FileAccess ==
    /\ pc = "file_access"
    /\ LET mnt == files_mount_table[i] IN
        IF JoinLen(host.rootLen, mnt.target) >= PathMax
        THEN Exit(1) /\ UNCHANGED <<i, to>>
        ELSE /\ exit_err' = exit_err + 1
             /\ to' = JoinPath(mnt.target)
             /\ UNCHANGED exit_status
             /\ IF ~host.resolv
                THEN FileNext
                ELSE /\ pc' = IF Exists(fs, Resolve(JoinPath(mnt.target)))
                              THEN "file_mount" ELSE "file_creat"
                     /\ UNCHANGED i
    /\ UNCHANGED <<Process, fs, ops, fds, umask, buf, name, dirp, uid, injected>>

FileCreat ==
    /\ pc = "file_creat"
    /\ \E fault \in BOOLEAN :
        LET err == IF fault THEN Outside ELSE CreatErr(fs, Resolve(to)) IN
        /\ Issue(Call("file_creat", "creat", "", to, {}, err))
        /\ injected' = (injected \/ fault)
        /\ IF err # ""
           THEN Exit(1) /\ UNCHANGED <<fds, fs>>
           ELSE /\ Pass(1, "file_close")
                /\ fds' = fds \cup {"file"}
                /\ fs' = [fs EXCEPT ![Resolve(to)] =
                            FileNode(IF @.kind = "none" THEN ApplyUmask(Mode0644, umask)
                                     ELSE @.mode, <<>>)]
    /\ UNCHANGED <<Process, i, umask, buf, name, to, dirp, uid>>

FileClose ==
    /\ pc = "file_close"
    /\ \E fault \in BOOLEAN :
        LET err == IF fault THEN Outside ELSE "" IN
        /\ Issue(Call("file_close", "close", "", to, {}, err))
        /\ injected' = (injected \/ fault)
        /\ fds' = Released(fds, "file")
        /\ IF err # "" THEN Exit(1) ELSE Pass(1, "file_mount")
    /\ UNCHANGED <<Process, fs, i, umask, buf, name, to, dirp, uid>>

FileMount ==
    /\ pc = "file_mount"
    /\ \E fault \in BOOLEAN :
        LET mnt == files_mount_table[i]
            err == IF fault THEN Outside ELSE MountErr(fs, mnt.source, to, "file") IN
        /\ Issue(Call("file_mount", "mount", mnt.source, to, mnt.flags, err))
        /\ injected' = (injected \/ fault)
        /\ exit_err' = exit_err + 1
        /\ IF err # ""
           THEN /\ pc' = "exit"
                /\ exit_status' = (exit_err + 1) % StatusBits
                /\ UNCHANGED i
           ELSE FileNext /\ UNCHANGED exit_status
    /\ UNCHANGED <<Process, fs, fds, umask, buf, name, to, dirp, uid>>

\* an existing path is an error
SymlinkStrict(err) == err = ""

\* symlink(...) == -1 && errno != EEXIST is the fatal case
SymlinkTolerated(err) == err \in {"", "EEXIST"}

Symlink ==
    /\ pc = "symlink"
    /\ LET s == symlinks[i] IN
        IF CatLen(host.rootLen, s.link) >= PathMax
        THEN Exit(1) /\ UNCHANGED <<i, to, ops, fs, injected>>
        ELSE \E fault \in BOOLEAN :
            LET path == CatPath(s.link)
                err  == IF fault THEN Outside ELSE SymlinkErr(fs, Resolve(path)) IN
            /\ Issue(Call("symlink", "symlink", s.target, path, {}, err))
            /\ injected' = (injected \/ fault)
            /\ to' = path
            /\ fs' = IF err = "" THEN [fs EXCEPT ![Resolve(path)] = LinkNode(s.target)]
                     ELSE fs
            /\ IF ~SymlinkTolerated(err)
               THEN Exit(2) /\ UNCHANGED i
               ELSE IF i < Len(symlinks)
                    THEN Pass(2, "symlink") /\ i' = i + 1
                    ELSE Pass(2, After("symlink")) /\ UNCHANGED i
    /\ UNCHANGED <<Process, fds, umask, buf, name, dirp, uid>>

\* return EXIT_SUCCESS
Return ==
    /\ pc = "return"
    /\ pc' = "done"
    /\ exit_status' = 0
    /\ UNCHANGED <<Process, fs, i, exit_err, ops, fds, umask, buf, name, to, dirp,
                   uid, injected>>

\* the program is started again on the root a successful invocation left
Rerun ==
    /\ pc = "done"
    /\ run < MaxRuns
    /\ run' = run + 1
    /\ snap' = fs
    /\ pc' = "start"
    /\ i' = 0
    /\ exit_err' = 0
    /\ exit_status' = 0
    /\ ops' = <<>>
    /\ fds' = {}
    /\ umask' = host.umask
    /\ buf' = <<>>
    /\ name' = <<>>
    /\ to' = ""
    /\ dirp' = <<>>
    /\ uid' = NoUid
    /\ injected' = FALSE
    /\ UNCHANGED <<host, fs>>

Next ==
    \/ CheckArgs \/ MountRoot \/ OpenRoot \/ Unlink \/ Umask \/ Mkdir
    \/ HostsAccess \/ MidOpen \/ MidRead \/ MidFailFd \/ MidClose
    \/ HostsOpen \/ HostsWrite \/ HostsFailFd \/ HostsClose \/ HostsCheck
    \/ CloseRoot
    \/ DevAccess \/ DevOpen \/ DevClose \/ DevMount
    \/ DirMount
    \/ SysStatfs \/ SysRec \/ SysAccess \/ SysFopen \/ SysFscanf \/ SysFclose
    \/ SysBind \/ SysOpendir \/ SysReaddir \/ SysCtlMount \/ SysClosedir
    \/ FileAccess \/ FileCreat \/ FileClose \/ FileMount
    \/ Symlink \/ Return

Spec == Init /\ [][Next]_vars

NextRerun == Next \/ Rerun

SpecRerun == Init /\ [][NextRerun]_vars

----------------------------------------------------------------------------
(* What the claims speak of *)

Mount(src, tgt, flags) == [src |-> src, tgt |-> tgt, flags |-> flags]

AsMount(c) == Mount(c.src, c.tgt, c.flags)

RECURSIVE MapSeq(_, _)
MapSeq(F(_), s) == IF s = <<>> THEN <<>> ELSE <<F(Head(s))>> \o MapSeq(F, Tail(s))

IsPrefix(s, t) == Len(s) <= Len(t) /\ s = SubSeq(t, 1, Len(s))

Indices(s) == 1..Len(s)

\* the mounts issued by mount_sys, or on a path at or below <root>/sys
SysTargets ==
    {JoinPath("sys"), JoinPath("sys/fs/cgroup")}
        \cup {JoinPath(CgroupPath(host.listing[n].name)) : n \in Indices(host.listing)}

IsSysMount(c) ==
    /\ c.op = "mount"
    /\ c.step \in {"sys_rec", "sys_bind", "sys_ctl_mount"} \/ c.tgt \in SysTargets

SysMounts == MapSeq(AsMount, SelectSeq(ops, IsSysMount))

\* mount_sys has returned
SysReturned ==
    pc \in {"file_access", "file_creat", "file_close", "file_mount", "symlink",
            "return", "done"}

RecursiveSys == Mount("/sys", JoinPath("sys"), {"MS_BIND", "MS_REC"})

OneRecursiveSysMount ==
    /\ IsPrefix(SysMounts, <<RecursiveSys>>)
    /\ SysReturned => SysMounts = <<RecursiveSys>>

\* C1: on a host whose /sys/fs/cgroup is the unified hierarchy, the only
\* mount issued at or below <root>/sys is one recursive bind of /sys onto
\* <root>/sys, issued by the time mount_sys returns, whatever uid_map and the
\* cgroup directory hold
C1_UnifiedOneRecursiveMount == host.unified => OneRecursiveSysMount

C1_Witness ==
    /\ host.unified /\ pc = "done"
    /\ host.uidmap = IdentityMap /\ Len(host.listing) = 5
    /\ SysMounts = <<RecursiveSys>>

\* the record of uid_map has three numeric fields and is not (0, 0, unmapped)
NonIdentityRecord ==
    /\ host.uidmap.present
    /\ Len(host.uidmap.fields) = 3
    /\ \A n \in 1..3 : host.uidmap.fields[n].num
    /\ host.uidmap.fields # <<U32(0, 0), U32(0, 0), U32(65535, 65535)>>

\* C2: on a legacy hierarchy with a uid_map record other than (0, 0,
\* unmapped), the only mount issued at or below <root>/sys is one recursive
\* bind of /sys onto <root>/sys
C2_NestedOneRecursiveMount ==
    (~host.unified /\ NonIdentityRecord) => OneRecursiveSysMount

C2_Witness ==
    /\ ~host.unified /\ NonIdentityRecord /\ pc = "done"
    /\ host.uidmap.fields[1] = U32(0, 0) /\ host.uidmap.fields[2] = U32(0, 0)
    /\ Len(host.listing) = 5
    /\ SysMounts = <<RecursiveSys>>

IdentityRecord ==
    /\ host.uidmap.present
    /\ host.uidmap.fields = <<U32(0, 0), U32(0, 0), U32(65535, 65535)>>

\* the directories directly under the host's /sys/fs/cgroup, in the order
\* the enumeration returns them
IsController(d) == d.type = "DT_DIR" /\ d.name \notin {".", ".."}

Controllers == SelectSeq(host.listing, IsController)

ControllerTarget(d) == JoinPath("sys/fs/cgroup/" \o d.name)

TargetAndFlags(m) == [tgt |-> m.tgt, flags |-> m.flags]

ControllerMount(d) == [tgt |-> ControllerTarget(d), flags |-> {"MS_BIND"}]

ExpectedHead ==
    << Mount("/sys", JoinPath("sys"), {"MS_BIND"}),
       Mount("/sys/fs/cgroup", JoinPath("sys/fs/cgroup"), {"MS_BIND"}) >>

\* C3: on a legacy hierarchy with the record (0, 0, unmapped), the mounts
\* issued at or below <root>/sys are, in this order, a non-recursive bind of
\* /sys, a non-recursive bind of /sys/fs/cgroup, and one non-recursive bind
\* per directory entry other than . and .. of the host's /sys/fs/cgroup:
\* when mount_sys returns the controller targets are exactly those
\* directories, each once
C3_LegacyPerControllerMounts ==
    (~host.unified /\ IdentityRecord) =>
        LET m    == SysMounts
            head == SubSeq(m, 1, Min(2, Len(m)))
            rest == MapSeq(TargetAndFlags, SubSeq(m, 3, Len(m)))
            want == MapSeq(ControllerMount, Controllers)
        IN  /\ IsPrefix(head, ExpectedHead)
            /\ IsPrefix(rest, want)
            /\ SysReturned =>
                /\ head = ExpectedHead
                /\ rest = want
                /\ {rest[n].tgt : n \in Indices(rest)}
                      = {ControllerTarget(d) : d \in
                            {e \in {host.listing[n] : n \in Indices(host.listing)} :
                                IsController(e)}}
                /\ \A a, b \in Indices(rest) : rest[a].tgt = rest[b].tgt => a = b

C3_Witness ==
    /\ ~host.unified /\ IdentityRecord /\ pc = "done"
    /\ Len(host.listing) = 5
    /\ Len(SysMounts) = 4

----------------------------------------------------------------------------
(* etc/hosts *)

HostsWritten ==
    \E n \in Indices(ops) :
        ops[n].op = "write" /\ ops[n].tgt = "etc/hosts" /\ ops[n].ok

\* the identity c0..c31 the host file starts with
Identity == SubSeq(host.mid.data, 1, 32)

Group(m, first, last) == SubSeq(m, first + 1, last + 1)

\* 'rkt-' c0..c7 - c8..c11 - c12..c15 - c16..c19 - c20..c31
ClaimedName(m) ==
    <<"r", "k", "t", "-">> \o Group(m, 0, 7) \o <<"-">> \o Group(m, 8, 11) \o <<"-">>
        \o Group(m, 12, 15) \o <<"-">> \o Group(m, 16, 19) \o <<"-">> \o Group(m, 20, 31)

\* '127.0.0.1' TAB hostname TAB 'localhost' TAB 'localhost.localdomain' NEWLINE
ClaimedLine(nm) ==
    <<"1", "2", "7", ".", "0", ".", "0", ".", "1", "\t">> \o nm
        \o <<"\t", "l", "o", "c", "a", "l", "h", "o", "s", "t", "\t">>
        \o <<"l", "o", "c", "a", "l", "h", "o", "s", "t", ".",
             "l", "o", "c", "a", "l", "d", "o", "m", "a", "i", "n", "\n">>

SynthesizedFromIdentity ==
    /\ host.mid \in GoodIds
    /\ run = 1 /\ ~Exists(snap, "etc/hosts")
    /\ HostsWritten

\* C4: with a 32-character identity c0..c31 and no etc/hosts, the bytes
\* written to etc/hosts are the loopback line for the name 'rkt-' c0..c7 -
\* c8..c11 - c12..c15 - c16..c19 - c20..c31
C4_HostsLineFromIdentity ==
    SynthesizedFromIdentity => fs["etc/hosts"].data = ClaimedLine(ClaimedName(Identity))

\* what the program writes instead: the last group is c20..c27
C4_WrittenLine ==
    SynthesizedFromIdentity =>
        fs["etc/hosts"].data =
            ClaimedLine(<<"r", "k", "t", "-">> \o Group(Identity, 0, 7) \o <<"-">>
                \o Group(Identity, 8, 11) \o <<"-">> \o Group(Identity, 12, 15)
                \o <<"-">> \o Group(Identity, 16, 19) \o <<"-">> \o Group(Identity, 20, 27))

HostsCalls ==
    {n \in Indices(ops) : ops[n].tgt \in {"/etc/machine-id", "etc/hosts"}}

\* C5: when etc/hosts exists under the root the program was started on, the
\* synthesizer returns success without any call on the identity file or on
\* etc/hosts, holds no descriptor of either, and etc/hosts stays as it was
C5_ExistingHostsUntouched ==
    (run = 1 /\ Exists(snap, "etc/hosts")) =>
        /\ HostsCalls = {}
        /\ fs["etc/hosts"] = snap["etc/hosts"]
        /\ pc \notin {"mid_open", "mid_read", "mid_close", "mid_fail_fd", "hosts_open",
                      "hosts_write", "hosts_close", "hosts_fail_fd", "hosts_ret0"}
        /\ fds \cap {"machine-id", "etc/hosts"} = {}

C5_Witness ==
    /\ run = 1 /\ Exists(snap, "etc/hosts") /\ pc = "done"
    /\ fs["etc/hosts"].data = StrCustomHosts
    /\ HostsCalls = {}

----------------------------------------------------------------------------
(* The order of the parts of a run *)

SkeletonSteps == {"unlink", "mkdir"}

HostsSteps == {"mid_open", "mid_read", "mid_close", "mid_fail_fd", "hosts_open",
               "hosts_write", "hosts_close", "hosts_fail_fd"}

DeviceSteps == {"dev_open", "dev_close", "dev_mount"}

DirSteps == {"dir_mount"}

SysSteps == {"sys_fopen", "sys_fclose", "sys_rec", "sys_bind", "sys_opendir",
             "sys_ctl_mount", "sys_closedir"}

FileSteps == {"file_creat", "file_close", "file_mount"}

SymlinkSteps == {"symlink"}

\* a sequence of numbers never decreases
Ascending(s) == \A n \in 1..(Len(s) - 1) : s[n] <= s[n + 1]

\* the four components in the order Skeleton Builder, Device & File
\* Bind-Mounter, Cgroup-Aware Sys Mounter, Hosts Synthesizer
Component(c) ==
    CASE c.step \in SkeletonSteps                                -> 1
      [] c.step \in DeviceSteps \cup DirSteps \cup FileSteps     -> 2
      [] c.step \in SysSteps                                     -> 3
      [] c.step \in HostsSteps                                   -> 4
      [] OTHER                                                   -> 0

InComponent(c) == Component(c) # 0

\* C6 as stated: no call of a later component is issued before a call of an
\* earlier one, the components taken in the order Skeleton Builder, Device &
\* File Bind-Mounter, Cgroup-Aware Sys Mounter, Hosts Synthesizer
C6_ComponentsInStatedOrder ==
    Ascending(MapSeq(Component, SelectSeq(ops, InComponent)))

\* the parts in the order Skeleton Builder, Hosts Synthesizer, device nodes,
\* directories, Cgroup-Aware Sys Mounter, files, symlinks
Part(c) ==
    CASE c.step \in SkeletonSteps -> 1
      [] c.step \in HostsSteps    -> 2
      [] c.step \in DeviceSteps   -> 3
      [] c.step \in DirSteps      -> 4
      [] c.step \in SysSteps      -> 5
      [] c.step \in FileSteps     -> 6
      [] c.step \in SymlinkSteps  -> 7
      [] OTHER                    -> 0

InPart(c) == Part(c) # 0

IsHostsCall(c) == c.tgt \in {"/etc/machine-id", "etc/hosts"}

IsResolvMount(c) == c.op = "mount" /\ c.src = "/etc/rkt-resolv.conf"

IsTableMount(c) == c.op = "mount" /\ c.tgt # Root

\* C6, amended: the parts run strictly in the order skeleton, hosts, device
\* nodes, directories, sys, files, symlinks; so every call on the identity
\* file or etc/hosts comes before every mount under the root, and the
\* resolv.conf mount comes after every mount at or below <root>/sys
C6_PartsInCodeOrder ==
    /\ Ascending(MapSeq(Part, SelectSeq(ops, InPart)))
    /\ \A a, b \in Indices(ops) :
        /\ (IsHostsCall(ops[a]) /\ IsTableMount(ops[b])) => a < b
        /\ (IsSysMount(ops[a]) /\ IsResolvMount(ops[b])) => a < b

C6_Witness ==
    /\ pc = "done" /\ HostsWritten
    /\ \E a, b, c \in Indices(ops) :
        /\ a < b /\ b < c
        /\ ops[a].op = "write" /\ ops[a].tgt = "etc/hosts"
        /\ IsSysMount(ops[b])
        /\ IsResolvMount(ops[c])

----------------------------------------------------------------------------
(* The skeleton *)

ClaimedDirs ==
    {"dev", "dev/net", "dev/shm", "etc", "proc", "sys", "tmp", "dev/pts", "run",
     "run/systemd", "run/systemd/journal"}

ClaimedMode(p) == IF p = "tmp" THEN 1023 ELSE 493

SkeletonBuilt ==
    pc \notin {"start", "mount_root", "open_root", "unlink", "umask", "mkdir", "exit"}

\* C7: started on an empty root, once the directory loop is through every
\* directory of the list exists with its listed mode (01777 for tmp, 0755
\* otherwise), and no mkdirat fails for a reason of the tree (a missing
\* parent, an existing entry)
C7_SkeletonFromEmptyRoot ==
    (run = 1 /\ snap = EmptyRoot) =>
        /\ SkeletonBuilt =>
              \A p \in ClaimedDirs : fs[p] = [kind |-> "dir", mode |-> ClaimedMode(p),
                                              data |-> <<>>]
        /\ \A n \in Indices(ops) :
              (ops[n].op = "mkdirat" /\ ~ops[n].ok) => ops[n].err = Outside

C7_Witness ==
    /\ run = 1 /\ snap = EmptyRoot /\ pc = "done" /\ host.umask = 18
    /\ fs["tmp"].mode = 1023 /\ fs["run/systemd/journal"].kind = "dir"

----------------------------------------------------------------------------
(* A second invocation on the root a first one prepared *)

\* the process is in the unlink, directory or hosts steps, or before them
InSkeletonSteps ==
    pc \in {"start", "mount_root", "open_root", "unlink", "umask", "mkdir",
            "hosts_access", "mid_open", "mid_read", "mid_close", "mid_fail_fd",
            "hosts_open", "hosts_write", "hosts_close", "hosts_fail_fd",
            "hosts_ret0", "hosts_ret1", "close_root"}

\* the process ended in those steps
EndedInSkeletonSteps ==
    /\ pc = "exit"
    /\ \A n \in Indices(ops) :
        ops[n].step \in {"mount_root", "open_root"} \cup SkeletonSteps \cup HostsSteps

----------------------------------------------------------------------------
(* The device nodes *)

ClaimedDevices ==
    << "/dev/null", "/dev/zero", "/dev/full", "/dev/random", "/dev/urandom",
       "/dev/tty", "/dev/net/tun", "/dev/console" >>

\* the n-th iteration of the device loop is through
DeviceDone(n) ==
    \/ pc \in {"dev_access", "dev_open", "dev_close", "dev_mount"} /\ i > n
    \/ pc \in {"dir_mount", "sys_statfs", "sys_rec", "sys_access", "sys_fopen",
               "sys_fscanf", "sys_fclose", "sys_bind", "sys_opendir", "sys_readdir",
               "sys_ctl_mount", "sys_closedir", "file_access", "file_creat",
               "file_close", "file_mount", "symlink", "return", "done"}

CallsOn(path) == SelectSeq(ops, LAMBDA c : c.tgt = path)

IsMountCall(c) == c.op = "mount"

IsOpenCall(c) == c.op = "open"

\* C9: for each device node of the list: if the host has none, no call is
\* ever issued on <root><path> and nothing is created there; if it has one,
\* by the end of the node's iteration exactly one mount has been issued on
\* <root><path>, a non-recursive bind of the host node, after the one
\* attempt to create the placeholder
C9_DeviceNodes ==
    run = 1 =>
        \A n \in Indices(ClaimedDevices) :
            LET d     == ClaimedDevices[n]
                path  == Root \o d
                calls == CallsOn(path)
            IN  IF d \notin host.devs
                THEN calls = <<>> /\ fs[Resolve(path)] = snap[Resolve(path)]
                ELSE /\ Len(SelectSeq(calls, IsMountCall)) <= 1
                     /\ DeviceDone(n) =>
                          /\ Len(SelectSeq(calls, IsMountCall)) = 1
                          /\ Len(SelectSeq(calls, IsOpenCall)) = 1
                          /\ calls[1].op = "open"
                          /\ AsMount(calls[Len(calls)])
                                = Mount(d, path, {"MS_BIND"})

C9_Witness ==
    /\ run = 1 /\ pc = "done"
    /\ host.devs = AllDevs \ {"/dev/net/tun"}
    /\ fs["dev/net/tun"] = NoNode
    /\ Len(CallsOn(Root \o "/dev/console")) = 3

----------------------------------------------------------------------------
(* Failures *)

\* a call failed and the failure is none the program tolerates: ENOENT and
\* EISDIR of unlinkat, EEXIST of mkdirat and symlink, the placeholder open
NonTolerated(c) ==
    /\ ~c.ok
    /\ ~(c.op = "unlinkat" /\ c.err \in {"ENOENT", "EISDIR"})
    /\ ~(c.op \in {"mkdirat", "symlink"} /\ c.err = "EEXIST")
    /\ ~(c.op = "open" /\ c.step = "dev_open")

\* after a failure that is not tolerated no call follows but the close of
\* the descriptor the failed call was made on, and the process exits
C10_NothingAfterFailure ==
    \A n \in Indices(ops) :
        NonTolerated(ops[n]) =>
            /\ pc \in {"exit", "mid_fail_fd", "hosts_fail_fd", "hosts_ret0"}
            /\ \/ n = Len(ops)
               \/ n = Len(ops) - 1 /\ ops[Len(ops)].op = "close"

\* a run ends in success only if no failure occurred that is not tolerated
C10_SuccessMeansNoFailure ==
    pc = "done" => (exit_status = 0 /\ \A n \in Indices(ops) : ~NonTolerated(ops[n]))

\* a run that ended by a fatal failure reports a failure status
C10_FailureStatus == pc = "exit" => exit_status # 0

\* C10: fail-fast without rollback: once a failure that is not tolerated has
\* occurred no further operation is issued, nothing is retried or undone, and
\* the process terminates with a failure status; a run ends in success only
\* if no such failure occurred
C10_FailFast ==
    /\ C10_NothingAfterFailure
    /\ C10_SuccessMeansNoFailure
    /\ C10_FailureStatus

----------------------------------------------------------------------------
(* The uid_map record *)

\* the record of the host does not parse as three integers
Malformed == host.uidmap.present /\ ScanCount(host.uidmap.fields, 3) # 3

\* the process is past the check of the record
PastFormatCheck ==
    pc \notin {"start", "mount_root", "open_root", "unlink", "umask", "mkdir",
               "hosts_access", "mid_open", "mid_read", "mid_close", "mid_fail_fd",
               "hosts_open", "hosts_write", "hosts_close", "hosts_fail_fd",
               "hosts_ret0", "hosts_ret1", "close_root", "dev_access", "dev_open",
               "dev_close", "dev_mount", "dir_mount", "sys_statfs", "sys_access",
               "sys_fopen", "sys_fscanf", "sys_fclose"}

\* C11: on a legacy hierarchy a uid_map record that does not parse as three
\* integers is fatal: no mount at or below <root>/sys is ever issued, the
\* run never gets further than the check of the record, where it ends with
\* a failure status, and it never ends in success
C11_MalformedRecordFatal ==
    (~host.unified /\ Malformed) =>
        /\ SysMounts = <<>>
        /\ PastFormatCheck => (pc = "exit" /\ exit_status # 0)

C11_Witness ==
    /\ ~host.unified /\ Malformed /\ ~injected
    /\ host.uidmap.fields = <<Zero, Zero>>
    /\ pc = "exit" /\ exit_status # 0
    /\ ops[Len(ops)].op = "fclose" /\ ops[Len(ops)].ok

\* a mount, or the enumeration, of the strategy that binds /sys, /sys/fs/cgroup
\* and every controller directory without MS_REC
IsNonRecursiveStep(c) == c.step \in {"sys_bind", "sys_opendir", "sys_ctl_mount", "sys_closedir"}

NonRecursiveChosen ==
    \/ pc \in {"sys_bind", "sys_opendir", "sys_readdir", "sys_ctl_mount", "sys_closedir"}
    \/ \E n \in Indices(ops) : IsNonRecursiveStep(ops[n])

\* the calls on /proc/1/uid_map
RecordCalls == SelectSeq(ops, LAMBDA c : c.tgt = "/proc/1/uid_map")

\* the record was opened, scanned and closed, and is (0, 0, UNMAPPED)
RecordReadAsIdentity ==
    /\ Len(RecordCalls) = 2 /\ RecordCalls[1].ok /\ RecordCalls[2].ok
    /\ uid = [k |-> 3, base |-> Zero, shift |-> Zero, range |-> UNMAPPED]

\* the record could not be opened or closed
RecordFailed == \E n \in Indices(RecordCalls) : ~RecordCalls[n].ok

\* C12 as stated: on a legacy hierarchy the strategy without MS_REC is
\* chosen only after a record was read and found to be (0, 0, UNMAPPED);
\* without a record, the file being absent included, no /sys mount is issued
C12_NoRecordNoSysMount ==
    ~host.unified =>
        /\ NonRecursiveChosen => RecordReadAsIdentity
        /\ (~host.uidmap.present \/ RecordFailed) => SysMounts = <<>>

\* C12, amended: on a legacy hierarchy a uid_map that exists but cannot be
\* opened or closed is fatal, with no /sys mount issued; a uid_map that does
\* not exist is never opened and selects the strategy without MS_REC, as a
\* record read as (0, 0, UNMAPPED) does
C12_AbsentRecordMeansNotNested ==
    ~host.unified =>
        /\ RecordFailed =>
            (SysMounts = <<>> /\ pc = "exit" /\ exit_status # 0)
        /\ NonRecursiveChosen =>
            IF host.uidmap.present THEN RecordReadAsIdentity
            ELSE RecordCalls = <<>> /\ uid = NoUid
        /\ ~host.uidmap.present =>
            /\ RecordCalls = <<>>
            /\ RecursiveSys \notin {SysMounts[n] : n \in Indices(SysMounts)}
            /\ PastFormatCheck /\ pc # "exit" => NonRecursiveChosen
            /\ SysReturned =>
                IsPrefix(<<Mount("/sys", JoinPath("sys"), {"MS_BIND"}),
                           Mount("/sys/fs/cgroup", JoinPath("sys/fs/cgroup"), {"MS_BIND"})>>,
                         SysMounts)

C12_Witness ==
    /\ ~host.unified /\ ~host.uidmap.present /\ ~injected
    /\ pc = "done" /\ RecordCalls = <<>>
    /\ Len(SysMounts) = 4

----------------------------------------------------------------------------
(* The exit status *)

\* the counter never decreases during a run
C13_CounterNeverDecreases == [][exit_err' >= exit_err]_vars

\* a fatal failure happened after at least one checked step, and the counter
\* handed to exit() is the number of checked steps
C13_CounterPositiveAtExit == pc = "exit" => exit_err >= 1

\* C13: the exit status is 0 exactly when the run succeeded: a run that
\* returned from main reports 0 and a run ended by a fatal failure reports
\* the counter exit_err, as the 8-bit status of the process, which is not 0,
\* however many checked steps and controller directories came before
C13_StatusZeroIffSuccess ==
    /\ pc = "done" => exit_status = 0
    /\ pc = "exit" => (exit_status = exit_err % StatusBits /\ exit_status # 0)

----------------------------------------------------------------------------
(* The placeholder of a device node *)

IsFailedPlaceholder(c) == c.step = "dev_open" /\ ~c.ok

\* C14 as stated: a failed open of the placeholder of a device node is
\* fatal: no call follows it, the mount of the node included
C14_PlaceholderFailureFatal ==
    \A n \in Indices(ops) : IsFailedPlaceholder(ops[n]) => n = Len(ops)

\* C14, amended: the open of the placeholder is not checked: it counts as no
\* checked step, and after a failed open the next call is the bind mount of
\* the same node on the same path; the run is fatal there if that mount
\* fails and goes on if it succeeds
C14_PlaceholderFailureIgnored ==
    \A n \in Indices(ops) :
        IsFailedPlaceholder(ops[n]) =>
            IF n = Len(ops)
            THEN pc = "dev_mount" /\ to = ops[n].tgt
            ELSE /\ ops[n + 1].step = "dev_mount" /\ ops[n + 1].op = "mount"
                 /\ ops[n + 1].tgt = ops[n].tgt
                 /\ Root \o ops[n + 1].src = ops[n].tgt
                 /\ ops[n + 1].flags = {"MS_BIND"}
                 /\ ~ops[n + 1].ok => (n + 1 = Len(ops) /\ pc = "exit")
                 /\ (ops[n + 1].ok /\ n + 1 = Len(ops)) => pc # "exit"

C14_Witness ==
    /\ pc = "done" /\ exit_status = 0
    /\ \E n \in Indices(ops) :
        /\ IsFailedPlaceholder(ops[n]) /\ ops[n].tgt = Root \o "/dev/null"
        /\ ops[n + 1].op = "mount" /\ ops[n + 1].ok

----------------------------------------------------------------------------
(* Descriptors *)

Transient == {"machine-id", "etc/hosts", "placeholder", "uid_map", "cgroup-dir", "file"}

IsOpening(c) == c.op \in {"open", "openat", "fopen", "opendir", "creat"} /\ c.ok

IsClosing(c) == c.op \in {"close", "fclose", "closedir"}

IsRootCall(c) == c.step \in {"open_root", "close_root"}

\* the root descriptor is open after the n-th call
RootOpenAfter(n) ==
    \E m \in 1..n :
        /\ ops[m].step = "open_root" /\ ops[m].ok
        /\ \A k \in (m + 1)..n : ops[k].step # "close_root"

\* C15: besides the root descriptor at most one transient descriptor is
\* open at any point; the root descriptor is opened after the bind of the root
\* on itself, is open when no mount is issued and is closed before the first
\* device, directory, /sys or file mount; a run that succeeded has closed
\* every descriptor it opened
C15_DescriptorDiscipline ==
    /\ fds \subseteq Transient \cup {"rootfd"}
    /\ Cardinality(fds \ {"rootfd"}) <= 1
    /\ "rootfd" \in fds <=> RootOpenAfter(Len(ops))
    /\ \A n \in Indices(ops) :
        /\ ops[n].op = "mount" => ~RootOpenAfter(n)
        /\ ops[n].step = "open_root" => (n = 2 /\ ops[1].step = "mount_root")
        /\ ops[n].step \in DeviceSteps \cup DirSteps \cup SysSteps \cup FileSteps =>
                \E m \in 1..(n - 1) : ops[m].step = "close_root"
    /\ pc \in {"mount_root", "dev_mount", "dir_mount", "sys_rec", "sys_bind",
               "sys_ctl_mount", "file_mount"} => "rootfd" \notin fds
    /\ pc \in {"return", "done"} =>
        /\ fds = {}
        /\ Len(SelectSeq(ops, IsOpening)) = Len(SelectSeq(ops, IsClosing))

C15_Witness ==
    /\ pc = "sys_ctl_mount" /\ fds = {"cgroup-dir"} /\ ~injected
    /\ Len(SelectSeq(ops, IsOpening)) = 12
    /\ Len(SelectSeq(ops, IsClosing)) = 11

----------------------------------------------------------------------------
(* Composed mount targets *)

\* the mounts whose target is composed from the root and a relative target
IsComposedMount(c) == c.op = "mount" /\ c.step # "mount_root"

\* the bytes of the target of a call, the root counted with its real length
TargetLen(c) == host.rootLen + Len(c.tgt) - Len(Root)

TableTargets(table) == {table[n].target : n \in Indices(table)}

\* the relative target the step of a mount is given
RelativeTargets(c) ==
    CASE c.step = "dev_mount"     -> {SubSeq(c.src, 2, Len(c.src))}
      [] c.step = "dir_mount"     -> TableTargets(dirs_mount_table)
      [] c.step = "sys_rec"       -> {mnt_rec.target}
      [] c.step = "sys_bind"      -> TableTargets(sys_bind_table)
      [] c.step = "sys_ctl_mount" ->
            {"sys/fs/cgroup/" \o host.listing[n].name : n \in Indices(host.listing)}
      [] c.step = "file_mount"    -> TableTargets(files_mount_table)
      [] OTHER                    -> {}

\* C16: every mount on a target composed from the root and a relative
\* target is issued on exactly the root joined with that target, and only
\* when the joined path with its terminator fits the buffer of 4096 bytes; a
\* run for which some composed path does not fit ends fatally, without a
\* mount on that path
C16_NoMountOnTruncatedPath ==
    /\ \A n \in Indices(ops) :
        IsComposedMount(ops[n]) =>
            /\ TargetLen(ops[n]) < 4096
            /\ \E t \in RelativeTargets(ops[n]) : ops[n].tgt = Root \o "/" \o t
    /\ pc = "done" =>
        /\ \A t \in TableTargets(dirs_mount_table) \cup TableTargets(files_mount_table) :
                host.rootLen + 1 + Len(t) < 4096
        /\ \A n \in Indices(host.listing) :
            (~host.unified /\ ~Nested(uid) /\ ~Skipped(host.listing[n])) =>
                host.rootLen + 1 + Len("sys/fs/cgroup/" \o host.listing[n].name) < 4096

C16_Witness ==
    /\ pc = "exit" /\ ~injected /\ host.rootLen = 4075
    /\ ops[Len(ops)].step = "dir_mount" /\ ops[Len(ops)].ok
    /\ \E n \in Indices(dirs_mount_table) :
        /\ host.rootLen + 1 + Len(dirs_mount_table[n].target) = 4096
        /\ \A m \in Indices(ops) :
                ops[m].tgt # Root \o "/" \o dirs_mount_table[n].target

----------------------------------------------------------------------------
(* The source of a controller mount *)

\* the path the kernel resolves a path argument to
Absolute(cwd, path) ==
    IF SubSeq(path, 1, 1) = "/" THEN path
    ELSE IF cwd = "/" THEN "/" \o path
    ELSE cwd \o "/" \o path

ListedNames == {host.listing[n].name : n \in Indices(host.listing)}

\* the source and target of the controller mounts are paths of the same name
C17_ControllerTargets ==
    \A n \in Indices(ops) :
        ops[n].step = "sys_ctl_mount" =>
            \E d \in ListedNames :
                /\ ops[n].src = "sys/fs/cgroup/" \o d
                /\ ops[n].tgt = Root \o "/sys/fs/cgroup/" \o d

\* C17: every controller mount of the legacy strategy has as its source the
\* host's /sys/fs/cgroup/<name> and as its target <root>/sys/fs/cgroup/<name>,
\* whatever the working directory of the process is
C17_ControllerSourceAbsolute ==
    \A n \in Indices(ops) :
        ops[n].step = "sys_ctl_mount" =>
            \E d \in ListedNames :
                /\ Absolute(host.cwd, ops[n].src) = "/sys/fs/cgroup/" \o d
                /\ ops[n].tgt = Root \o "/sys/fs/cgroup/" \o d

----------------------------------------------------------------------------
(* The symlinks *)

IsSymlinkCall(c) == c.step = "symlink"

\* a successful mount from src onto <root>/<target> was issued before call n
MountedBefore(n, src, path) ==
    \E m \in 1..(n - 1) :
        ops[m].op = "mount" /\ ops[m].ok /\ ops[m].src = src /\ ops[m].tgt = path

\* every mount of the run was issued before call n
AllMountsBefore(n) ==
    /\ \A d \in host.devs : MountedBefore(n, d, Root \o d)
    /\ \A k \in Indices(dirs_mount_table) :
        MountedBefore(n, dirs_mount_table[k].source, JoinPath(dirs_mount_table[k].target))
    /\ MountedBefore(n, "/sys", JoinPath("sys"))
    /\ (~host.unified /\ ~Nested(uid)) =>
        /\ MountedBefore(n, "/sys/fs/cgroup", JoinPath("sys/fs/cgroup"))
        /\ \A k \in Indices(host.listing) :
            ~Skipped(host.listing[k]) =>
                MountedBefore(n, CgroupPath(host.listing[k].name),
                              JoinPath(CgroupPath(host.listing[k].name)))
    /\ host.resolv =>
        \A k \in Indices(files_mount_table) :
            MountedBefore(n, files_mount_table[k].source,
                          JoinPath(files_mount_table[k].target))

\* C18: the symlinks dev/ptmx -> /dev/pts/ptmx and dev/log ->
\* /run/systemd/journal/dev-log are the last calls of a run, in this order:
\* every device, directory, /sys and file mount of the run has been issued
\* before the first of them and no call of another kind follows; EEXIST
\* counts as success and every other failure is fatal
C18_SymlinksLast ==
    \A n \in Indices(ops) :
        IsSymlinkCall(ops[n]) =>
            /\ ops[n].op = "symlink"
            /\ AllMountsBefore(n)
            /\ \A m \in n..Len(ops) : IsSymlinkCall(ops[m])
            /\ n >= Len(ops) - 1
            /\ LET first == (n = 1 \/ ~IsSymlinkCall(ops[n - 1])) IN
                /\ ops[n].tgt = (IF first THEN Root \o "/dev/ptmx" ELSE Root \o "/dev/log")
                /\ ops[n].src = (IF first THEN "/dev/pts/ptmx"
                                 ELSE "/run/systemd/journal/dev-log")
                /\ ~first => ops[n - 1].err \in {"", "EEXIST"}
            /\ ops[n].err \in {"", "EEXIST"} =>
                    (n = Len(ops) => pc \in {"symlink", "return", "done"})
            /\ ops[n].err \notin {"", "EEXIST"} =>
                    (n = Len(ops) /\ pc = "exit" /\ exit_status # 0)

C18_Witness ==
    /\ pc = "done" /\ ~injected /\ Len(ops) > 2
    /\ IsSymlinkCall(ops[Len(ops)])
    /\ IsSymlinkCall(ops[Len(ops) - 1]) /\ ops[Len(ops) - 1].err = "EEXIST"
    /\ ops[Len(ops) - 2].step = "file_mount"

----------------------------------------------------------------------------
(* The identity file and the hosts entry *)

\* the synthesizer wrote etc/hosts on a root that had none
Synthesized == run = 1 /\ ~Exists(snap, "etc/hosts") /\ HostsWritten

\* the line made of the characters of the identity file alone
LineOf(data) == HostsLineFormat(MachineNameFormat(SubSeq(data, 1, MACHINE_ID_LEN)))

\* with an identity file of MACHINE_ID_LEN characters or more the line is
\* made of the characters read, whatever the buffer held before
C19_FullIdentityDeterminesLine ==
    (Synthesized /\ Len(host.mid.data) >= MACHINE_ID_LEN) =>
        fs["etc/hosts"].data = LineOf(host.mid.data)

\* C19: the hosts entry written is a function of the content of the identity
\* file alone, and an identity file that yields fewer characters than the
\* identity length, an empty one included, makes the synthesizer fail
\* instead of writing an entry
C19_HostsFromIdentityAlone ==
    Synthesized =>
        /\ Len(host.mid.data) >= MACHINE_ID_LEN
        /\ fs["etc/hosts"].data = LineOf(host.mid.data)

----------------------------------------------------------------------------
(* The symlinks after a successful run *)

PtmxLink == LinkNode("/dev/pts/ptmx")

LogLink == LinkNode("/run/systemd/journal/dev-log")

\* what a successful run leaves at the two paths: the symlink, or the
\* directory the root had at dev/ptmx, or whatever the root had at dev/log
C20_SymlinksOrKept ==
    (run = 1 /\ pc = "done") =>
        /\ fs["dev/ptmx"] = (IF snap["dev/ptmx"].kind = "dir" THEN snap["dev/ptmx"]
                             ELSE PtmxLink)
        /\ fs["dev/log"] = (IF snap["dev/log"].kind = "none" THEN LogLink
                            ELSE snap["dev/log"])

\* C20: after every successful run, whatever the root held at dev/ptmx and
\* dev/log before, dev/ptmx is a symlink to /dev/pts/ptmx and dev/log is a
\* symlink to /run/systemd/journal/dev-log
C20_SymlinksAfterSuccess ==
    pc = "done" => (fs["dev/ptmx"] = PtmxLink /\ fs["dev/log"] = LogLink)

====
